---- MODULE Spec2Model ----
(***************************************************************************)
(* A model of the portfolio site's browser-side scripts:                   *)
(*   assets/js/scroll.js  (ScrollManager, followed by the page script:     *)
(*                         navbar, forms, notifications, shortcuts)        *)
(*   assets/js/navbar.js  (the hamburger click handler)                    *)
(*                                                                         *)
(* The page runs on the browser's single main thread.  Every action below  *)
(* is one event-handler turn (or the resumption of an async handler after  *)
(* an await), executed atomically.                                         *)
(*                                                                         *)
(* The specifications share the module, one per group of handlers that     *)
(* touch common state:                                                     *)
(*   SpecForm    form submission and notifications                         *)
(*   SpecScroll  ScrollManager: scroll state record and the five effects   *)
(*   SpecNav     hamburger menu, resize, keyboard shortcuts                *)
(*   SpecToast   notifications and their removal timers (with fairness)    *)
(*   SpecCopy    the copy button and its timers                            *)
(*   SpecTheme   dark mode: stored theme and body attribute                *)
(*   SpecThrottle  scroll events as all scroll listeners see them, and the *)
(*               throttle timers                                           *)
(*   SpecSmooth  smoothScrollToElement and its animation frames            *)
(*   SpecEdge    scrollToTop and scrollToBottom                            *)
(*   SpecLazy    lazy image loading                                        *)
(*   SpecFilter  project filtering and its timers                          *)
(* Time is counted in ms where a handler sets a timer; timers may run late *)
(* but never early, except those of the project filter, which run when     *)
(* they are due, in the order of their deadlines.                          *)
(***************************************************************************)
EXTENDS Integers, Sequences, FiniteSets

(***************************************************************************)
(* Bounds of the model.                                                    *)
(***************************************************************************)
\* submit events delivered to the form
MaxSubmits == 3
\* clicks on the hamburger toggle
MaxClicks == 5
\* direct calls of showNotification
MaxToasts == 2
\* calls of copyToClipboard
MaxCopies == 2
\* localStorage.setItem('theme', ...) calls
MaxThemeWrites == 6
\* calls of smoothScrollToElement
MaxSmoothScrolls == 1
\* clicks on the project filter buttons
MaxFilterClicks == 3

(***************************************************************************)
(* State.                                                                  *)
(***************************************************************************)
VARIABLES
    \* ---- the form (handleFormSubmit) ----
    hasSubmitBtn,   \* form.querySelector('[type="submit"]') is not null
    btnDisabled,    \* submitBtn.disabled
    btnText,        \* submitBtn.textContent
    fieldValue,     \* the value entered in the form's field
    requests,       \* the fetch calls issued, in order; each keeps the
                    \* originalText its handler invocation captured
    submitEvents,   \* submit events delivered so far
    \* ---- notifications (showNotification) ----
    toasts,         \* the notification elements created, in order
    \* ---- the browser window ----
    scrollY,        \* window.scrollY
    docHeight,      \* document.documentElement.scrollHeight
    innerHeight,    \* window.innerHeight
    innerWidth,     \* window.innerWidth
    \* ---- ScrollManager ----
    state,          \* ScrollManager.state
    touchTimeout,   \* ScrollManager.touchTimeout is pending
    dom,            \* per marked element: its inline style and class list
    navActive,      \* the [data-scroll-nav] links that carry 'active'
    \* ---- the navigation menu ----
    burgerClasses,  \* class list of .hamburger
    menuClasses,    \* class list of .nav-menu
    bodyOverflow,   \* document.body.style.overflow
    scrollRequest,  \* the last window.scrollTo({top, behavior}) asked for
    defaultPrevented, \* the last keydown event had preventDefault() called
    \* ---- the copy button (copyToClipboard) ----
    copyLabel,      \* element.textContent
    copyCalls,      \* calls of copyToClipboard so far
    copyWriting,    \* calls that await navigator.clipboard.writeText
    copyTimers,     \* the 2 s timers set, in the order they were set; each
                    \* keeps the originalText its invocation captured
    \* ---- dark mode (initDarkMode, applyTheme) ----
    storedTheme,    \* localStorage.getItem('theme'), "" for null
    bodyScheme,     \* body's data-color-scheme attribute, "" when absent
    prefersDark,    \* matchMedia('(prefers-color-scheme: dark)').matches
    themeApplied,   \* applyTheme has run since the page was loaded
    themeWrites,    \* the values written to the 'theme' key, in order
    \* ---- the page script's scroll listeners ----
    navThrottle,    \* throttle(handleNavbarScroll, 100): inThrottle and the
                    \* time since its timer was set
    navbarStyle,    \* DOM.navbar.style: boxShadow and padding
    navLinkActive,  \* the sections whose .nav-link carries 'active'
    navItemActive,  \* the sections whose link's parent carries 'active'
    progressThrottle, \* the throttle of the progress-bar listener
    progressWidth,  \* progressBar.style.width in %, as a fraction
    throttleLog,    \* (bookkeeping) per throttled listener: whether func
                    \* was ever invoked, the time since its last invocation
                    \* (up to the limit), and whether the last call of the
                    \* wrapper invoked it
    \* ---- ScrollManager.smoothScrollToElement ----
    animations,     \* one record per call: the values its closure captured,
                    \* the time since its first frame, whether a frame is
                    \* requested, the last position it passed to
                    \* window.scrollTo, and (bookkeeping) the frames it ran
    \* ---- ScrollManager.scrollToTop / scrollToBottom ----
    edgeCall,       \* (bookkeeping) the last such call: which of the two,
                    \* the animation it started (0 for none), whether no
                    \* animation was running when it was made, and whether
                    \* the user has scrolled since it finished
    \* ---- initLazyLoading ----
    hasObserver,    \* 'IntersectionObserver' in window
    imgInView,      \* per image: it intersects the viewport now
    imgSrc,         \* per image: its src attribute, "" when not set
    imgLoaded,      \* the images that carry the class 'loaded'
    observed,       \* the images imageObserver observes
    reported,       \* per observed image: the isIntersecting of the last
                    \* entry delivered for it, "none" before the first
    reportedInside, \* (bookkeeping) the images for which an entry with
                    \* isIntersecting was delivered
    srcWrites,      \* (bookkeeping) per image: how often the loader has
                    \* assigned its src, counted up to 2
    \* ---- initProjectFiltering / handleProjectFilter ----
    filterListening, \* handleProjectFilter is registered on the buttons
    cardDisplay,    \* per project card: style.display, "" when not set
    cardOpacity,    \* per project card: style.opacity, "" when not set
    filterTimers,   \* the pending timers of handleProjectFilter in the
                    \* order they were set: the card, the property the
                    \* callback sets, and the ms left until it is due
    lastFilter,     \* (bookkeeping) data-filter of the button clicked last
    filterClicks,   \* (bookkeeping) the number of clicks so far
    \* ---- bookkeeping ----
    lastEvent,      \* the kind of the event handled last
    scrollEvents,   \* scroll events handled so far, counted up to 2
    prevOffset,     \* the offset the window was at before the last scroll
                    \* event
    burgerClicks,   \* clicks on the hamburger toggle so far
    lastKey         \* the key and target of the last keydown event

formVars == <<hasSubmitBtn, btnDisabled, btnText, fieldValue, requests,
              submitEvents, toasts>>
windowVars == <<scrollY, docHeight, innerHeight, innerWidth>>
scrollVars == <<state, touchTimeout, dom, navActive, scrollEvents,
                prevOffset>>
navVars == <<burgerClasses, menuClasses, bodyOverflow, scrollRequest,
             defaultPrevented, burgerClicks, lastKey>>

copyVars == <<copyLabel, copyCalls, copyWriting, copyTimers>>
themeVars == <<storedTheme, bodyScheme, prefersDark, themeApplied,
               themeWrites>>
listenerVars == <<navThrottle, navbarStyle, navLinkActive, navItemActive,
                  progressThrottle, progressWidth, throttleLog>>
smoothVars == <<animations>>
edgeVars == <<edgeCall>>
lazyVars == <<hasObserver, imgInView, imgSrc, imgLoaded, observed, reported,
              reportedInside, srcWrites>>
filterVars == <<filterListening, cardDisplay, cardOpacity, filterTimers,
                lastFilter, filterClicks>>
widgetVars == <<edgeVars, lazyVars, filterVars>>
pageVars == <<copyVars, themeVars, listenerVars, smoothVars, widgetVars>>

vars == <<formVars, windowVars, scrollVars, navVars, pageVars, lastEvent>>

Min(a, b) == IF a < b THEN a ELSE b

(***************************************************************************)
(* Notifications: showNotification(message, type).                         *)
(* src is bookkeeping: which request's handler created the toast (0 for a  *)
(* caller that is not a form submission).  A toast is appended to the body *)
(* ("shown"); its 4 s timer starts the slide-out ("fading") and sets the   *)
(* 0.3 s timer that removes it ("removed").  age and fadeAge are the time  *)
(* in ms since the element was appended and since the slide-out started.   *)
(***************************************************************************)
ToastDelay == 4000
FadeDelay == 300
\* the steps in which the model lets time pass, in ms
TickSteps == {100, 1000}
\* copyToClipboard: the delay of its timer, and the element's labels
CopiedDelay == 2000
CopyLabel == "Copy"
CopiedLabel == "Copied!"

\* setTimeout(f, delay): f may run once delay ms have passed
TimerDueAtOnce(elapsed, delay) == TRUE

TimerDue(elapsed, delay) == elapsed >= delay

ShowNotification(ts, message, type, src) ==
    Append(ts, [message |-> message, type |-> type, src |-> src,
                phase |-> "shown", age |-> 0, fadeAge |-> 0])

\* a toast d ms later
AgedToast(t, d) ==
    IF t.phase = "removed" THEN t
    ELSE [t EXCEPT !.age = Min(@ + d, ToastDelay + FadeDelay),
                   !.fadeAge = IF t.phase = "fading"
                               THEN Min(@ + d, FadeDelay) ELSE @]

(***************************************************************************)
(* The form.                                                               *)
(***************************************************************************)
InitialLabel == "Send Message"
SendingLabel == "Sending..."
FieldDefault == ""
\* form.method and form.action, as the markup gives them
FormMethod == "post"
FormAction == "/contact"
FieldInputs == {"", "hello", "world"}
Outcomes == {"ok", "http_error", "network_error"}

\* the branch of the try / catch taken for an outcome of the fetch:
\* response.ok, a response that is not ok, or a rejected promise
NotificationForAlwaysSuccess(outcome) ==
    [message |-> "Message sent successfully!", type |-> "success"]

NotificationFor(outcome) ==
    IF outcome = "ok"
    THEN [message |-> "Message sent successfully!", type |-> "success"]
    ELSE IF outcome = "http_error"
    THEN [message |-> "Failed to send message. Please try again.",
          type |-> "error"]
    ELSE [message |-> "An error occurred. Please try again later.",
          type |-> "error"]

\* form.reset() is called in the response.ok branch only
FieldAfterAlwaysReset(outcome, v) == FieldDefault

FieldAfter(outcome, v) == IF outcome = "ok" THEN FieldDefault ELSE v

InitForm ==
    /\ hasSubmitBtn \in BOOLEAN
    /\ btnDisabled = FALSE
    /\ btnText = InitialLabel
    /\ fieldValue = FieldDefault
    /\ requests = <<>>
    /\ submitEvents = 0
    /\ toasts = <<>>

\* the user types into the field
EditField(v) ==
    /\ v # fieldValue
    /\ fieldValue' = v
    /\ UNCHANGED <<hasSubmitBtn, btnDisabled, btnText, requests,
                   submitEvents, toasts>>
    /\ UNCHANGED <<windowVars, scrollVars, navVars, lastEvent>>
    /\ UNCHANGED pageVars

\* handleFormSubmit up to its await: a submit event on the form
SubmitEvent ==
    /\ submitEvents < MaxSubmits
    /\ submitEvents' = submitEvents + 1
    /\ IF ~hasSubmitBtn
       THEN UNCHANGED <<btnDisabled, btnText, requests>>
       ELSE /\ requests' = Append(requests,
                              [state |-> "pending",
                               method |-> FormMethod,
                               action |-> FormAction,
                               originalText |-> btnText,
                               outcome |-> "none"])
            /\ btnDisabled' = TRUE
            /\ btnText' = SendingLabel
    /\ UNCHANGED <<hasSubmitBtn, fieldValue, toasts>>
    /\ UNCHANGED <<windowVars, scrollVars, navVars, lastEvent>>
    /\ UNCHANGED pageVars

\* handleFormSubmit from its await to its end: request i settles
SettleRequest(i, outcome) ==
    /\ i \in DOMAIN requests
    /\ requests[i].state = "pending"
    /\ requests' = [requests EXCEPT ![i].state = "settled",
                                    ![i].outcome = outcome]
    /\ toasts' = ShowNotification(toasts, NotificationFor(outcome).message,
                                  NotificationFor(outcome).type, i)
    /\ fieldValue' = FieldAfter(outcome, fieldValue)
    \* finally
    /\ btnDisabled' = FALSE
    /\ btnText' = requests[i].originalText
    /\ UNCHANGED <<hasSubmitBtn, submitEvents>>
    /\ UNCHANGED <<windowVars, scrollVars, navVars, lastEvent>>
    /\ UNCHANGED pageVars

(***************************************************************************)
(* The page: the elements the scripts look up.  The markup is not part of  *)
(* the scripts; this page carries each declarative attribute the scripts   *)
(* read (scroll.js, "USAGE EXAMPLES"), some of them on the same element.   *)
(* Lengths are CSS pixels.                                                 *)
(***************************************************************************)
RevealEls == {"card", "nav", "bg"}      \* [data-reveal]
HideEls == {"nav"}                      \* [data-hide-on-scroll]
ParallaxEls == {"bg"}                   \* [data-parallax]
StickyEls == {"side", "bar"}            \* [data-sticky]
Elements == RevealEls \cup HideEls \cup ParallaxEls \cup StickyEls

\* el.offsetTop in normal flow, and the element's height
LayoutTop == [card |-> 700, nav |-> 0, bg |-> 100, side |-> 470,
              bar |-> 120]
Height == [card |-> 200, nav |-> 60, bg |-> 300, side |-> 100,
           bar |-> 40, footer |-> 200]
\* parseFloat(el.dataset.parallax), in tenths; not a number when the
\* attribute carries none
DataParallax == [bg |-> [isNumber |-> FALSE, tenths |-> 0]]
\* el.dataset.offset of the sticky elements that carry data-offset ("bar"
\* carries none)
DataOffset == [side |-> 70]

\* [data-scroll-spy] sections in document order, with their page extents;
\* "promo" overlaps the end of "features" and the start of "projects"
SpyTargets == <<"home", "features", "promo", "projects">>
SectionTop == [home |-> 100, features |-> 500, promo |-> 800,
               projects |-> 900]
SectionBottom == [home |-> 500, features |-> 900, promo |-> 1000,
                  projects |-> 1300]
\* [data-scroll-nav] links: the id their href names after the '#'
NavHref == [linkHome |-> "home", linkFeatures |-> "features",
            linkPromo |-> "promo", linkProjects |-> "projects",
            linkContact |-> "contact"]
ScrollNavs == DOMAIN NavHref

\* what the browser can report
Offsets == {0, 60, 100, 120, 400, 430, 900}
DocHeights == {600, 1500}
Viewports == {<<500, 400>>, <<767, 600>>, <<768, 400>>, <<1024, 600>>}
WheelDeltas == {-100, 0, 100}

(***************************************************************************)
(* ScrollManager.config and CONFIG.                                        *)
(***************************************************************************)
parallaxFactorTenths == 5
revealThresholdPct == 15
hideNavbarThreshold == 100
scrollSpyOffset == 70
smoothScrollDuration == 800
navbarHeight == 70
mobileBreakpoint == 768
scrollThrottle == 100
progressThrottleLimit == 50

(***************************************************************************)
(* CSS values.  A length or translateY() argument is a number with its     *)
(* unit; unit "none" is a property the scripts have not set.               *)
(***************************************************************************)
Unset == [y |-> 0, unit |-> "none"]
Px(n) == [y |-> n, unit |-> "px"]
Pct(n) == [y |-> n, unit |-> "%"]
Zero == [y |-> 0, unit |-> ""]

\* the vertical translation a transform value amounts to, in pixels
TranslationPx(t, el) ==
    IF t.unit = "%" THEN (t.y * Height[el]) \div 100 ELSE t.y

\* el.getBoundingClientRect() at scroll offset y.  A fixed element is laid
\* out against the viewport; the transform moves the box.
RectTop(d, el, y) ==
    (IF d[el].position = "fixed" THEN d[el].top.y ELSE LayoutTop[el] - y)
        + TranslationPx(d[el].transform, el)
RectBottom(d, el, y) == RectTop(d, el, y) + Height[el]

(***************************************************************************)
(* ScrollManager: the state record.                                        *)
(***************************************************************************)
\* scrollPercent = (currentScroll / maxScroll) * 100 is kept as the exact
\* fraction num/den; den = 0 is the division by zero (NaN or Infinity)
Percent(currentScroll, maxScroll) ==
    [num |-> currentScroll * 100, den |-> maxScroll]

\* the direction after a scroll event
DirectionKeepsWheel(direction, currentScroll, lastScrollTop) == direction

ScrollDirection(direction, currentScroll, lastScrollTop) ==
    IF currentScroll > lastScrollTop THEN "down"
    ELSE IF currentScroll < lastScrollTop THEN "up"
    ELSE direction

\* handleScroll, up to the call of triggerScrollEffects
HandleScroll(st, currentScroll, ih) ==
    [st EXCEPT
        !.direction = ScrollDirection(st.direction, currentScroll,
                                      st.lastScrollTop),
        !.scrollVelocity = currentScroll - st.lastScrollTop,
        !.lastScrollTop = currentScroll,
        !.scrollPosition = currentScroll,
        !.isAtTop = (currentScroll <= 0),
        !.isAtBottom = (currentScroll >= st.maxScroll - ih),
        !.scrollPercent = Percent(currentScroll, st.maxScroll)]

HandleWheel(st, deltaY) ==
    IF deltaY > 0 THEN [st EXCEPT !.direction = "down"]
    ELSE IF deltaY < 0 THEN [st EXCEPT !.direction = "up"]
    ELSE st

UpdateScrollState(st, scrollHeight, ih) ==
    [st EXCEPT !.maxScroll = scrollHeight - ih]

(***************************************************************************)
(* ScrollManager: the five effects.  Each takes the elements' styles and   *)
(* classes and gives them back as the effect leaves them.                  *)
(***************************************************************************)
ParallaxFactorTenths(el) ==
    IF ~DataParallax[el].isNumber \/ DataParallax[el].tenths = 0
    THEN parallaxFactorTenths
    ELSE DataParallax[el].tenths

UpdateParallax(d, y) ==
    [el \in Elements |->
        IF el \in ParallaxEls
        THEN [d[el] EXCEPT
                 !.transform = Px((y * ParallaxFactorTenths(el)) \div 10)]
        ELSE d[el]]

IsVisible(d, el, y, ih) ==
    /\ 100 * RectTop(d, el, y) < 100 * ih - ih * revealThresholdPct
    /\ RectBottom(d, el, y) > 0

UpdateScrollReveal(d, y, ih) ==
    [el \in Elements |->
        IF el \in RevealEls /\ IsVisible(d, el, y, ih)
        THEN [d[el] EXCEPT !.opacity = "1",
                           !.transform = Zero,
                           !.classes = @ \cup {"revealed"}]
        ELSE d[el]]

\* the sections whose bounding box holds the probe point
SpyMatches(y) ==
    {i \in DOMAIN SpyTargets :
        /\ SectionTop[SpyTargets[i]] - y <= scrollSpyOffset
        /\ SectionBottom[SpyTargets[i]] - y > scrollSpyOffset}

\* activeTarget after the forEach over the targets: the last match, or ""
\* for null
ActiveTargetFirstMatch(y) ==
    IF SpyMatches(y) = {} THEN ""
    ELSE SpyTargets[CHOOSE i \in SpyMatches(y) :
                        \A j \in SpyMatches(y) : i <= j]

ActiveTarget(y) ==
    IF SpyMatches(y) = {} THEN ""
    ELSE SpyTargets[CHOOSE i \in SpyMatches(y) :
                        \A j \in SpyMatches(y) : j <= i]

UpdateScrollSpyClearsWhenNone(active, y) ==
    {nav \in ScrollNavs : NavHref[nav] = ActiveTarget(y)}

UpdateScrollSpyKeepsOthers(active, y) ==
    IF ActiveTarget(y) # ""
    THEN active \cup {nav \in ScrollNavs : NavHref[nav] = ActiveTarget(y)}
    ELSE active

UpdateScrollSpy(active, y) ==
    IF ActiveTarget(y) # ""
    THEN {nav \in ScrollNavs : NavHref[nav] = ActiveTarget(y)}
    ELSE active

UpdateHideOnScrollAnyDirection(d, st) ==
    LET shouldHide == st.scrollPosition > hideNavbarThreshold
    IN [el \in Elements |->
          IF el \notin HideEls THEN d[el]
          ELSE IF shouldHide
          THEN [d[el] EXCEPT !.transform = Pct(-100),
                             !.opacity = "0",
                             !.pointerEvents = "none"]
          ELSE [d[el] EXCEPT !.transform = Zero,
                             !.opacity = "1",
                             !.pointerEvents = "auto"]]

UpdateHideOnScroll(d, st) ==
    LET shouldHide == st.direction = "down"
                      /\ st.scrollPosition > hideNavbarThreshold
    IN [el \in Elements |->
          IF el \notin HideEls THEN d[el]
          ELSE IF shouldHide
          THEN [d[el] EXCEPT !.transform = Pct(-100),
                             !.opacity = "0",
                             !.pointerEvents = "none"]
          ELSE [d[el] EXCEPT !.transform = Zero,
                             !.opacity = "1",
                             !.pointerEvents = "auto"]]

\* el.dataset.offset || 0
StickyOffsetAlwaysZero(el) == 0

StickyOffset(el) == IF el \in DOMAIN DataOffset THEN DataOffset[el] ELSE 0

UpdateStickyElements(d, st) ==
    [el \in Elements |->
        IF el \notin StickyEls THEN d[el]
        ELSE IF st.scrollPosition >= LayoutTop[el] - StickyOffset(el)
        THEN [d[el] EXCEPT !.position = "fixed",
                           !.top = Px(StickyOffset(el)),
                           !.width = "parent",
                           !.zIndex = "100",
                           !.classes = @ \cup {"sticky-active"}]
        ELSE [d[el] EXCEPT !.position = "relative",
                           !.top = Zero,
                           !.classes = @ \ {"sticky-active"}]]

\* triggerScrollEffects, but for the scroll spy, which touches the links
TriggerScrollEffects(d, st, y, ih) ==
    UpdateStickyElements(
        UpdateHideOnScroll(
            UpdateScrollReveal(UpdateParallax(d, y), y, ih), st), st)


(***************************************************************************)
(* ScrollManager: events.                                                  *)
(***************************************************************************)
\* ScrollManager's scroll listener on a scroll event that finds the window
\* at offset y: handleScroll
ScrollManagerListener(y) ==
    /\ y # scrollY
    /\ y <= docHeight - innerHeight
    /\ scrollY' = y
    /\ LET st == HandleScroll(state, y, innerHeight)
       IN /\ state' = st
          /\ dom' = TriggerScrollEffects(dom, st, y, innerHeight)
    /\ navActive' = UpdateScrollSpy(navActive, y)
    /\ lastEvent' = "scroll"
    /\ scrollEvents' = Min(scrollEvents + 1, 2)
    /\ prevOffset' = scrollY
    /\ UNCHANGED <<docHeight, innerHeight, innerWidth, touchTimeout>>

\* a scroll event as ScrollManager sees it.  The page script's throttled
\* listeners run on the same event; they touch the navbar, the navigation
\* entries and the progress bar only and are left to PageScrollEvent.
ScrollEvent(y) ==
    /\ ScrollManagerListener(y)
    /\ UNCHANGED <<formVars, navVars>>
    /\ UNCHANGED pageVars

\* a wheel event
WheelEvent(deltaY) ==
    /\ state' = HandleWheel(state, deltaY)
    /\ lastEvent' = "wheel"
    /\ UNCHANGED <<touchTimeout, dom, navActive, scrollEvents, prevOffset>>
    /\ UNCHANGED <<formVars, windowVars, navVars>>
    /\ UNCHANGED pageVars

\* a touchmove event: handleTouchMove
TouchMoveEvent ==
    /\ state' = [state EXCEPT !.isScrolling = TRUE]
    /\ touchTimeout' = TRUE
    /\ lastEvent' = "touchmove"
    /\ UNCHANGED <<dom, navActive, scrollEvents, prevOffset>>
    /\ UNCHANGED <<formVars, windowVars, navVars>>
    /\ UNCHANGED pageVars

\* the timer handleTouchMove set fires
TouchTimeoutFires ==
    /\ touchTimeout
    /\ touchTimeout' = FALSE
    /\ state' = [state EXCEPT !.isScrolling = FALSE]
    /\ lastEvent' = "timeout"
    /\ UNCHANGED <<dom, navActive, scrollEvents, prevOffset>>
    /\ UNCHANGED <<formVars, windowVars, navVars>>
    /\ UNCHANGED pageVars

\* the document's height changes (content loads, fonts swap): no event
LayoutChange(h) ==
    /\ h # docHeight
    /\ h >= innerHeight
    /\ scrollY <= h - innerHeight
    /\ docHeight' = h
    /\ lastEvent' = "layout"
    /\ UNCHANGED <<scrollY, innerHeight, innerWidth>>
    /\ UNCHANGED <<formVars, scrollVars, navVars>>
    /\ UNCHANGED pageVars

(***************************************************************************)
(* The navigation menu.                                                    *)
(***************************************************************************)
Keys == {"Escape", "Home", "End", "/", "a"}
NoScrollRequest == [asked |-> FALSE, top |-> 0]

\* classList.toggle(c)
ToggleAddsOnly(classes, c) == classes \cup {c}

Toggle(classes, c) ==
    IF c \in classes THEN classes \ {c} ELSE classes \cup {c}

\* closeHamburger: what it leaves of a class list
CloseHamburger(classes) == classes \ {"active"}

\* a click on .hamburger: the listener of navbar.js and toggleHamburger
BurgerClick ==
    /\ burgerClicks < MaxClicks
    /\ burgerClasses' = Toggle(Toggle(burgerClasses, "open"), "active")
    /\ menuClasses' = Toggle(Toggle(menuClasses, "open"), "active")
    /\ bodyOverflow' = IF "open" \in Toggle(menuClasses, "open")
                       THEN "hidden" ELSE ""
    /\ burgerClicks' = burgerClicks + 1
    /\ lastEvent' = "click"
    /\ UNCHANGED <<scrollRequest, defaultPrevented, lastKey>>
    /\ UNCHANGED <<formVars, windowVars, scrollVars>>
    /\ UNCHANGED pageVars

\* a click on a .nav-link
NavLinkClick ==
    /\ burgerClasses' = CloseHamburger(burgerClasses)
    /\ menuClasses' = CloseHamburger(menuClasses)
    /\ lastEvent' = "navlink"
    /\ UNCHANGED <<bodyOverflow, scrollRequest, defaultPrevented,
                   burgerClicks, lastKey>>
    /\ UNCHANGED <<formVars, windowVars, scrollVars>>
    /\ UNCHANGED pageVars

\* a resize event: ScrollManager's listener (updateScrollState) and
\* handleWindowResize
ResizeEvent(vp) ==
    /\ vp # <<innerWidth, innerHeight>>
    /\ docHeight >= vp[2]
    /\ scrollY <= docHeight - vp[2]
    /\ innerWidth' = vp[1]
    /\ innerHeight' = vp[2]
    /\ state' = UpdateScrollState(state, docHeight, vp[2])
    /\ IF vp[1] >= mobileBreakpoint
       THEN /\ burgerClasses' = CloseHamburger(burgerClasses)
            /\ menuClasses' = CloseHamburger(menuClasses)
       ELSE UNCHANGED <<burgerClasses, menuClasses>>
    /\ lastEvent' = "resize"
    /\ UNCHANGED <<scrollY, docHeight>>
    /\ UNCHANGED <<touchTimeout, dom, navActive, scrollEvents, prevOffset>>
    /\ UNCHANGED <<bodyOverflow, scrollRequest, defaultPrevented,
                   burgerClicks, lastKey>>
    /\ UNCHANGED formVars
    /\ UNCHANGED pageVars

\* smoothScrollTo(element): window.scrollTo({top, behavior: 'smooth'})
SmoothScrollTo(offsetTop) == [asked |-> TRUE, top |-> offsetTop - navbarHeight]

\* a keydown event: handleKeyboardShortcut
KeydownEvent(key, inTextInput) ==
    /\ lastEvent' = "keydown"
    /\ lastKey' = [key |-> key, inTextInput |-> inTextInput]
    /\ IF inTextInput
       THEN /\ defaultPrevented' = FALSE
            /\ UNCHANGED <<burgerClasses, menuClasses, scrollRequest>>
       ELSE /\ defaultPrevented' = (key \in {"/", "Home", "End"})
            /\ burgerClasses' = IF key = "Escape"
                                THEN CloseHamburger(burgerClasses)
                                ELSE burgerClasses
            /\ menuClasses' = IF key = "Escape"
                              THEN CloseHamburger(menuClasses)
                              ELSE menuClasses
            /\ scrollRequest' =
                  IF key = "Home" THEN SmoothScrollTo(SectionTop["home"])
                  ELSE IF key = "End"
                  THEN SmoothScrollTo(docHeight - Height["footer"])
                  ELSE scrollRequest
    /\ UNCHANGED <<bodyOverflow, burgerClicks>>
    /\ UNCHANGED <<formVars, windowVars, scrollVars>>
    /\ UNCHANGED pageVars

(***************************************************************************)
(* Time, and the timers of the notifications.                              *)
(***************************************************************************)
\* a 2 s timer of copyToClipboard d ms later
AgedCopyTimer(tm, d) ==
    IF tm.fired THEN tm ELSE [tm EXCEPT !.elapsed = Min(@ + d, CopiedDelay)]

\* a throttle wrapper d ms later
AgedThrottle(th, d, limit) ==
    IF th.inThrottle THEN [th EXCEPT !.elapsed = Min(@ + d, limit)] ELSE th

\* the record kept of a throttled function d ms later
AgedLog(log, d, limit) ==
    IF log.invoked THEN [log EXCEPT !.since = Min(@ + d, limit)] ELSE log

\* d ms pass without any handler running
TimePasses(d) ==
    /\ \A k \in DOMAIN filterTimers : filterTimers[k].remaining >= d
    /\ filterTimers' = [k \in DOMAIN filterTimers |->
                           [filterTimers[k] EXCEPT !.remaining = @ - d]]
    /\ UNCHANGED <<filterListening, cardDisplay, cardOpacity, lastFilter,
                   filterClicks>>
    /\ UNCHANGED <<edgeVars, lazyVars>>
    /\ toasts' = [k \in DOMAIN toasts |-> AgedToast(toasts[k], d)]
    /\ copyTimers' = [k \in DOMAIN copyTimers |->
                         AgedCopyTimer(copyTimers[k], d)]
    /\ navThrottle' = AgedThrottle(navThrottle, d, scrollThrottle)
    /\ progressThrottle' =
          AgedThrottle(progressThrottle, d, progressThrottleLimit)
    /\ throttleLog' =
          [nav |-> AgedLog(throttleLog.nav, d, scrollThrottle),
           progress |-> AgedLog(throttleLog.progress, d,
                                progressThrottleLimit)]
    /\ lastEvent' = "time"
    /\ UNCHANGED <<hasSubmitBtn, btnDisabled, btnText, fieldValue, requests,
                   submitEvents>>
    /\ UNCHANGED <<copyLabel, copyCalls, copyWriting>>
    /\ UNCHANGED <<navbarStyle, navLinkActive, navItemActive, progressWidth>>
    /\ UNCHANGED <<windowVars, scrollVars, navVars, themeVars>>
    /\ UNCHANGED smoothVars

\* showNotification(message) called by a caller other than the form; the
\* type defaults to 'info'
ShowNotificationCall ==
    /\ Len(toasts) < MaxToasts
    /\ toasts' = ShowNotification(toasts, "message", "info", 0)
    /\ lastEvent' = "toast"
    /\ UNCHANGED <<hasSubmitBtn, btnDisabled, btnText, fieldValue, requests,
                   submitEvents>>
    /\ UNCHANGED <<windowVars, scrollVars, navVars, pageVars>>

\* the 4 s timer of toast k fires: the slide-out starts, the 0.3 s timer is
\* set
ToastFadeOut(k) ==
    /\ k \in DOMAIN toasts
    /\ toasts[k].phase = "shown"
    /\ TimerDue(toasts[k].age, ToastDelay)
    /\ toasts' = [toasts EXCEPT ![k].phase = "fading", ![k].fadeAge = 0]
    /\ lastEvent' = "timer"
    /\ UNCHANGED <<hasSubmitBtn, btnDisabled, btnText, fieldValue, requests,
                   submitEvents>>
    /\ UNCHANGED <<windowVars, scrollVars, navVars, pageVars>>

\* the 0.3 s timer of toast k fires: notification.remove()
ToastRemove(k) ==
    /\ k \in DOMAIN toasts
    /\ toasts[k].phase = "fading"
    /\ TimerDue(toasts[k].fadeAge, FadeDelay)
    /\ toasts' = [toasts EXCEPT ![k].phase = "removed"]
    /\ lastEvent' = "timer"
    /\ UNCHANGED <<hasSubmitBtn, btnDisabled, btnText, fieldValue, requests,
                   submitEvents>>
    /\ UNCHANGED <<windowVars, scrollVars, navVars, pageVars>>

(***************************************************************************)
(* The copy button: copyToClipboard(text, element), always called with the *)
(* same element.                                                           *)
(***************************************************************************)
\* copyToClipboard up to its await
CopyCall ==
    /\ copyCalls < MaxCopies
    /\ copyCalls' = copyCalls + 1
    /\ copyWriting' = copyWriting + 1
    /\ lastEvent' = "copy"
    /\ UNCHANGED <<copyLabel, copyTimers>>
    /\ UNCHANGED <<formVars, windowVars, scrollVars, navVars>>
    /\ UNCHANGED <<themeVars, listenerVars>>
    /\ UNCHANGED smoothVars
    /\ UNCHANGED widgetVars

\* copyToClipboard from its await to its end: writeText has settled
ClipboardSettles(ok) ==
    /\ copyWriting > 0
    /\ copyWriting' = copyWriting - 1
    /\ IF ok
       THEN /\ copyTimers' = Append(copyTimers,
                                    [originalText |-> copyLabel,
                                     elapsed |-> 0,
                                     fired |-> FALSE])
            /\ copyLabel' = CopiedLabel
            /\ UNCHANGED toasts
       ELSE /\ toasts' = ShowNotification(toasts,
                             "Failed to copy to clipboard", "error", 0)
            /\ UNCHANGED <<copyLabel, copyTimers>>
    /\ lastEvent' = "clipboard"
    /\ UNCHANGED copyCalls
    /\ UNCHANGED <<hasSubmitBtn, btnDisabled, btnText, fieldValue, requests,
                   submitEvents>>
    /\ UNCHANGED <<windowVars, scrollVars, navVars>>
    /\ UNCHANGED <<themeVars, listenerVars>>
    /\ UNCHANGED smoothVars
    /\ UNCHANGED widgetVars

\* the timers all have the same delay, so they come due in the order they
\* were set
NextCopyTimer ==
    {k \in DOMAIN copyTimers :
        /\ ~copyTimers[k].fired
        /\ \A j \in 1..(k - 1) : copyTimers[j].fired}

\* the 2 s timer set k-th fires
CopyTimerFires(k) ==
    /\ k \in NextCopyTimer
    /\ TimerDue(copyTimers[k].elapsed, CopiedDelay)
    /\ copyLabel' = copyTimers[k].originalText
    /\ copyTimers' = [copyTimers EXCEPT ![k].fired = TRUE]
    /\ lastEvent' = "timer"
    /\ UNCHANGED <<copyCalls, copyWriting>>
    /\ UNCHANGED <<formVars, windowVars, scrollVars, navVars>>
    /\ UNCHANGED <<themeVars, listenerVars>>
    /\ UNCHANGED smoothVars
    /\ UNCHANGED widgetVars

(***************************************************************************)
(* Dark mode.                                                              *)
(***************************************************************************)
\* what the 'theme' key may hold when the page is opened: nothing, a value
\* applyTheme wrote, or a value written by something else
StoredThemes == {"", "dark", "light", "blue"}

\* applyTheme(theme): the attribute it sets and the value it stores
ApplyThemeStoresArgument(theme) ==
    [scheme |-> IF theme = "dark" THEN "dark" ELSE "light",
     stored |-> theme]

ApplyTheme(theme) ==
    IF theme = "dark" THEN [scheme |-> "dark", stored |-> "dark"]
    ELSE [scheme |-> "light", stored |-> "light"]

\* initDarkMode: the theme it applies, "" when it applies none
StartupTheme(savedTheme, matches) ==
    IF savedTheme # "" THEN savedTheme
    ELSE IF matches THEN "dark"
    ELSE ""

\* the page is loaded (again): a new document, then initDarkMode; the
\* system preference may have changed while the page was closed
PageLoad(matches) ==
    /\ prefersDark' = matches
    /\ LET theme == StartupTheme(storedTheme, matches)
       IN IF theme = ""
          THEN /\ bodyScheme' = ""
               /\ themeApplied' = FALSE
               /\ UNCHANGED <<storedTheme, themeWrites>>
          ELSE /\ Len(themeWrites) < MaxThemeWrites
               /\ bodyScheme' = ApplyTheme(theme).scheme
               /\ storedTheme' = ApplyTheme(theme).stored
               /\ themeWrites' = Append(themeWrites, ApplyTheme(theme).stored)
               /\ themeApplied' = TRUE
    /\ lastEvent' = "load"
    /\ UNCHANGED <<formVars, windowVars, scrollVars, navVars, copyVars,
                   listenerVars>>
    /\ UNCHANGED smoothVars
    /\ UNCHANGED widgetVars

\* the system colour scheme changes while the page is open: the 'change'
\* listener of prefersDark
SystemThemeChange ==
    /\ lastEvent # "closed"
    /\ Len(themeWrites) < MaxThemeWrites
    /\ prefersDark' = ~prefersDark
    /\ LET theme == IF prefersDark' THEN "dark" ELSE "light"
       IN /\ bodyScheme' = ApplyTheme(theme).scheme
          /\ storedTheme' = ApplyTheme(theme).stored
          /\ themeWrites' = Append(themeWrites, ApplyTheme(theme).stored)
    /\ themeApplied' = TRUE
    /\ lastEvent' = "theme"
    /\ UNCHANGED <<formVars, windowVars, scrollVars, navVars, copyVars,
                   listenerVars>>
    /\ UNCHANGED smoothVars
    /\ UNCHANGED widgetVars

\* the page loaded with nothing stored and a light system scheme
InitTheme ==
    /\ storedTheme = ""
    /\ bodyScheme = ""
    /\ prefersDark = FALSE
    /\ themeApplied = FALSE
    /\ themeWrites = <<>>

(***************************************************************************)
(* The page script's scroll listeners: the throttled handleNavbarScroll    *)
(* and the throttled progress-bar update.                                  *)
(***************************************************************************)
\* the sections updateActiveNavLink looks at, in its order: DOM.hero (whose
\* link is '#home'), DOM.features, DOM.projects
NavSections == <<"home", "features", "projects">>

NavbarUnstyled == [boxShadow |-> "", padding |-> ""]
NavbarCompact == [boxShadow |-> "0 4px 12px rgba(0, 0, 0, 0.1)",
                  padding |-> "8px 0"]
NavbarRegular == [boxShadow |-> "0 1px 3px rgba(0, 0, 0, 0.04)",
                  padding |-> "12px 0"]

ThrottleIdle == [inThrottle |-> FALSE, elapsed |-> 0]
ThrottleSet == [inThrottle |-> TRUE, elapsed |-> 0]

\* the wrapper's test 'if (!inThrottle)': the call goes through to func
ThrottleAdmitsAlways(th) == TRUE

ThrottleAdmits(th) == ~th.inThrottle

\* the record kept of a throttled function after a call of its wrapper
NeverInvoked == [invoked |-> FALSE, since |-> 0, now |-> FALSE]
Logged(log, ran) ==
    IF ran THEN [invoked |-> TRUE, since |-> 0, now |-> TRUE]
    ELSE [log EXCEPT !.now = FALSE]

\* handleNavbarScroll: the navbar's inline style at scroll offset y
NavbarStyleAt(y) == IF y > 50 THEN NavbarCompact ELSE NavbarRegular

\* the sections whose bounding box holds the middle of the viewport
MiddleSections(y, ih) ==
    {i \in DOMAIN NavSections :
        /\ 2 * (SectionTop[NavSections[i]] - y) <= ih
        /\ 2 * (SectionBottom[NavSections[i]] - y) >= ih}

\* updateActiveNavLink: for each such section, 'active' is removed from every
\* .nav-link and added to the parent of the section's link
UpdateActiveNavLink(links, items, y, ih) ==
    IF MiddleSections(y, ih) = {}
    THEN [links |-> links, items |-> items]
    ELSE [links |-> {},
          items |-> items \cup {NavSections[i] : i \in MiddleSections(y, ih)}]

\* a scroll event that finds the window at offset y: ScrollManager's
\* listener, then the two throttled listeners of the page script
PageScrollEvent(y) ==
    /\ ScrollManagerListener(y)
    /\ IF ~ThrottleAdmits(navThrottle)
       THEN UNCHANGED <<navThrottle, navbarStyle, navLinkActive,
                        navItemActive>>
       ELSE /\ navbarStyle' = NavbarStyleAt(y)
            /\ LET upd == UpdateActiveNavLink(navLinkActive, navItemActive,
                                              y, innerHeight)
               IN /\ navLinkActive' = upd.links
                  /\ navItemActive' = upd.items
            /\ navThrottle' = ThrottleSet
    /\ IF ~ThrottleAdmits(progressThrottle)
       THEN UNCHANGED <<progressThrottle, progressWidth>>
       ELSE /\ progressWidth' = Percent(y, docHeight - innerHeight)
            /\ progressThrottle' = ThrottleSet
    /\ throttleLog' =
          [nav |-> Logged(throttleLog.nav, ThrottleAdmits(navThrottle)),
           progress |-> Logged(throttleLog.progress,
                               ThrottleAdmits(progressThrottle))]
    /\ UNCHANGED <<formVars, navVars, copyVars, themeVars>>
    /\ UNCHANGED smoothVars
    /\ UNCHANGED widgetVars

\* the timer of the navbar throttle fires: inThrottle = false
NavThrottleExpires ==
    /\ navThrottle.inThrottle
    /\ TimerDue(navThrottle.elapsed, scrollThrottle)
    /\ navThrottle' = ThrottleIdle
    /\ lastEvent' = "timer"
    /\ UNCHANGED <<navbarStyle, navLinkActive, navItemActive,
                   progressThrottle, progressWidth, throttleLog>>
    /\ UNCHANGED <<formVars, windowVars, scrollVars, navVars, copyVars,
                   themeVars>>
    /\ UNCHANGED smoothVars
    /\ UNCHANGED widgetVars

\* the timer of the progress-bar throttle fires
ProgressThrottleExpires ==
    /\ progressThrottle.inThrottle
    /\ TimerDue(progressThrottle.elapsed, progressThrottleLimit)
    /\ progressThrottle' = ThrottleIdle
    /\ lastEvent' = "timer"
    /\ UNCHANGED <<navThrottle, navbarStyle, navLinkActive, navItemActive,
                   progressWidth, throttleLog>>
    /\ UNCHANGED <<formVars, windowVars, scrollVars, navVars, copyVars,
                   themeVars>>
    /\ UNCHANGED smoothVars
    /\ UNCHANGED widgetVars

InitListeners ==
    /\ navThrottle = ThrottleIdle
    /\ navbarStyle = NavbarUnstyled
    /\ navLinkActive = {"home"}
    /\ navItemActive = {}
    /\ progressThrottle = ThrottleIdle
    /\ progressWidth = [num |-> 0, den |-> 1]
    /\ throttleLog = [nav |-> NeverInvoked, progress |-> NeverInvoked]

(***************************************************************************)
(* ScrollManager.smoothScrollToElement(element, offset).                   *)
(***************************************************************************)
\* the elements it is called with, "" for a missing one, and the offsets
SmoothTargets == {"card", "documentElement", ""}
SmoothOffsets == {0, 100}
\* the time between one animation frame and the next, in ms
FrameGaps == {200, 600}

\* element.offsetTop
OffsetTop(el) == IF el = "documentElement" THEN 0 ELSE LayoutTop[el]

\* ease = progress < 0.5 ? 2p^2 : -1 + (4 - 2p)p for p = elapsed / duration,
\* as the numerator of the exact fraction over duration^2
EaseNumQuadratic(elapsed, duration) == 2 * elapsed * elapsed

EaseNum(elapsed, duration) ==
    IF 2 * elapsed < duration
    THEN 2 * elapsed * elapsed
    ELSE 4 * elapsed * duration - duration * duration
         - 2 * elapsed * elapsed

\* startPosition + distance * ease, as an exact fraction
ScrollToArgument(a, elapsed, duration) ==
    [num |-> a.startPosition * duration * duration
             + a.distance * EaseNum(elapsed, duration),
     den |-> duration * duration]

\* where window.scrollTo(0, v) leaves the window
ClampScroll(v, maxY) == IF v < 0 THEN 0 ELSE IF v > maxY THEN maxY ELSE v

\* a call of smoothScrollToElement: the closure is set up and the first
\* frame requested
SmoothScrollCall(el, offset) ==
    /\ Len(animations) < MaxSmoothScrolls
    /\ animations' =
          IF el = "" THEN animations
          ELSE Append(animations,
                      [targetPosition |-> OffsetTop(el) - offset,
                       startPosition |-> scrollY,
                       distance |-> OffsetTop(el) - offset - scrollY,
                       elapsed |-> -1,
                       requested |-> TRUE,
                       lastSet |-> [num |-> 0, den |-> 0],
                       frames |-> 0])
    /\ lastEvent' = "smooth"
    /\ UNCHANGED <<formVars, windowVars, scrollVars, navVars>>
    /\ UNCHANGED <<copyVars, themeVars, listenerVars>>

\* smoothScrollToElement called by the page
SmoothScrollToElement(el, offset) ==
    /\ SmoothScrollCall(el, offset)
    /\ UNCHANGED widgetVars

\* the animation frame callback of call i, gap ms after its previous frame.
\* window.scrollTo moves the window; if that changes the offset, the scroll
\* event it causes is delivered to handleScroll.
AnimationFrame(i, gap) ==
    /\ i \in DOMAIN animations
    /\ animations[i].requested
    /\ LET a == animations[i]
           elapsed == IF a.elapsed = -1 THEN 0
                      ELSE Min(a.elapsed + gap, smoothScrollDuration)
           arg == ScrollToArgument(a, elapsed, smoothScrollDuration)
           y == ClampScroll(arg.num \div arg.den, docHeight - innerHeight)
       IN /\ animations' =
                [animations EXCEPT
                    ![i].elapsed = elapsed,
                    ![i].lastSet = arg,
                    ![i].frames = @ + 1,
                    ![i].requested = (elapsed < smoothScrollDuration)]
          /\ IF y = scrollY
             THEN /\ lastEvent' = "frame"
                  /\ UNCHANGED <<windowVars, scrollVars>>
             ELSE ScrollManagerListener(y)
    /\ UNCHANGED <<formVars, navVars>>
    /\ UNCHANGED <<copyVars, themeVars, listenerVars>>
    /\ UNCHANGED widgetVars

InitSmooth == animations = <<>>

(***************************************************************************)
(* ScrollManager.scrollToTop(smooth) and scrollToBottom(smooth).           *)
(***************************************************************************)
NoEdgeCall == [kind |-> "", anim |-> 0, alone |-> TRUE, disturbed |-> FALSE]

\* no animation of smoothScrollToElement has a frame requested
NoAnimationRuns == \A i \in DOMAIN animations : ~animations[i].requested

\* the call, if any, has made its last window.scrollTo
EdgeCallFinished ==
    /\ edgeCall.kind # ""
    /\ edgeCall.anim # 0 => ~animations[edgeCall.anim].requested

\* window.scrollTo(0, v) called outside an animation
WindowScrollTo(v) ==
    LET y == ClampScroll(v, docHeight - innerHeight)
    IN /\ IF y = scrollY
          THEN /\ lastEvent' = "scrollTo"
               /\ UNCHANGED <<windowVars, scrollVars>>
          ELSE ScrollManagerListener(y)
       /\ UNCHANGED <<formVars, navVars>>
       /\ UNCHANGED <<copyVars, themeVars, listenerVars, smoothVars>>

\* scrollToTop(smooth)
ScrollToTop(smooth) ==
    /\ IF smooth
       THEN SmoothScrollCall("documentElement", 0)
       ELSE WindowScrollTo(0)
    /\ edgeCall' = [kind |-> "top",
                    anim |-> IF smooth THEN Len(animations) + 1 ELSE 0,
                    alone |-> NoAnimationRuns,
                    disturbed |-> FALSE]
    /\ UNCHANGED <<lazyVars, filterVars>>

\* scrollToBottom(smooth): bottomElement is document.documentElement;
\* document.body.scrollHeight is the height of the document
ScrollToBottom(smooth) ==
    /\ IF smooth
       THEN SmoothScrollCall("documentElement", 0)
       ELSE WindowScrollTo(docHeight)
    /\ edgeCall' = [kind |-> "bottom",
                    anim |-> IF smooth THEN Len(animations) + 1 ELSE 0,
                    alone |-> NoAnimationRuns,
                    disturbed |-> FALSE]
    /\ UNCHANGED <<lazyVars, filterVars>>

\* a scroll event caused by the user
UserScroll(y) ==
    /\ ScrollManagerListener(y)
    /\ edgeCall' = [edgeCall EXCEPT !.disturbed = @ \/ EdgeCallFinished]
    /\ UNCHANGED <<lazyVars, filterVars>>
    /\ UNCHANGED <<formVars, navVars>>
    /\ UNCHANGED <<copyVars, themeVars, listenerVars, smoothVars>>

InitEdge == edgeCall = NoEdgeCall

InitCopy ==
    /\ copyLabel = CopyLabel
    /\ copyCalls = 0
    /\ copyWriting = 0
    /\ copyTimers = <<>>

(***************************************************************************)
(* initLazyLoading: the images with a data-src attribute.                  *)
(***************************************************************************)
LazyImages == {"img1", "img2", "img3"}
DataSrc == [img1 |-> "a.jpg", img2 |-> "b.jpg", img3 |-> "c.jpg"]

\* imageObserver.unobserve(img) for the images loaded by one callback
KeepsObserving(obs, loadedNow) == obs

Unobserve(obs, loadedNow) == obs \ loadedNow

\* what an entry reports
Report(isIntersecting) == IF isIntersecting THEN "in" ELSE "out"

\* the observed images whose intersection with the viewport differs from
\* what the observer last reported for them
Unreported ==
    {img \in observed : reported[img] # Report(imgInView[img])}

\* an image enters or leaves the viewport (the user scrolls, the layout
\* changes)
ImageMoves(img) ==
    /\ imgInView' = [imgInView EXCEPT ![img] = ~@]
    /\ lastEvent' = "layout"
    /\ UNCHANGED <<hasObserver, imgSrc, imgLoaded, observed, reported,
                   reportedInside, srcWrites>>
    /\ UNCHANGED <<formVars, windowVars, scrollVars, navVars>>
    /\ UNCHANGED <<copyVars, themeVars, listenerVars, smoothVars, edgeVars>>
    /\ UNCHANGED filterVars

\* the observer's callback runs with one entry for each image of targets:
\* those that intersect get their src, the class 'loaded', and are
\* unobserved
IntersectionCallback(targets) ==
    /\ hasObserver
    /\ targets # {}
    /\ targets \subseteq Unreported
    /\ LET inside == {img \in targets : imgInView[img]}
       IN /\ imgSrc' = [img \in LazyImages |->
                           IF img \in inside THEN DataSrc[img]
                           ELSE imgSrc[img]]
          /\ imgLoaded' = imgLoaded \cup inside
          /\ observed' = Unobserve(observed, inside)
          /\ reportedInside' = reportedInside \cup inside
          /\ srcWrites' = [img \in LazyImages |->
                              IF img \in inside
                              THEN Min(srcWrites[img] + 1, 2)
                              ELSE srcWrites[img]]
    /\ reported' = [img \in LazyImages |->
                       IF img \in targets THEN Report(imgInView[img])
                       ELSE reported[img]]
    /\ lastEvent' = "intersection"
    /\ UNCHANGED <<hasObserver, imgInView>>
    /\ UNCHANGED <<formVars, windowVars, scrollVars, navVars>>
    /\ UNCHANGED <<copyVars, themeVars, listenerVars, smoothVars, edgeVars>>
    /\ UNCHANGED filterVars

\* the page after initLazyLoading, with or without IntersectionObserver
InitLazyLoading(withObserver) ==
    /\ hasObserver = withObserver
    /\ imgInView \in [LazyImages -> BOOLEAN]
    /\ imgSrc = [img \in LazyImages |->
                    IF withObserver THEN "" ELSE DataSrc[img]]
    /\ imgLoaded = {}
    /\ observed = IF withObserver THEN LazyImages ELSE {}
    /\ reported = [img \in LazyImages |-> "none"]
    /\ reportedInside = {}
    /\ srcWrites = [img \in LazyImages |-> IF withObserver THEN 0 ELSE 1]

\* in the other specifications the images are all below the fold
InitLazy ==
    /\ InitLazyLoading(TRUE)
    /\ imgInView = [img \in LazyImages |-> FALSE]

(***************************************************************************)
(* initProjectFiltering and handleProjectFilter.                           *)
(***************************************************************************)
ProjectCards == <<"c1", "c2">>
Category == [c1 |-> "web", c2 |-> "design"]
Filters == {"all", "web", "design"}
ShowDelay == 10
HideDelay == 300

\* the timers handleProjectFilter sets for a click on the button with
\* data-filter f, in the order of the forEach over the cards
RECURSIVE FilterTimersFrom(_, _)
FilterTimersFrom(f, k) ==
    IF k > Len(ProjectCards) THEN <<>>
    ELSE <<IF f = "all" \/ Category[ProjectCards[k]] = f
           THEN [card |-> ProjectCards[k], sets |-> "opacity",
                 remaining |-> ShowDelay]
           ELSE [card |-> ProjectCards[k], sets |-> "display",
                 remaining |-> HideDelay]>>
         \o FilterTimersFrom(f, k + 1)

\* a click on a button with data-filter f
FilterClick(f) ==
    /\ filterClicks < MaxFilterClicks
    /\ filterClicks' = filterClicks + 1
    /\ lastFilter' = f
    /\ IF filterListening
       THEN /\ cardDisplay' =
                  [c \in DOMAIN Category |->
                      IF f = "all" \/ Category[c] = f THEN "block"
                      ELSE cardDisplay[c]]
            /\ cardOpacity' =
                  [c \in DOMAIN Category |->
                      IF f = "all" \/ Category[c] = f THEN cardOpacity[c]
                      ELSE "0"]
            /\ filterTimers' = filterTimers \o FilterTimersFrom(f, 1)
       ELSE UNCHANGED <<cardDisplay, cardOpacity, filterTimers>>
    /\ lastEvent' = "filter"
    /\ UNCHANGED filterListening
    /\ UNCHANGED <<formVars, windowVars, scrollVars, navVars>>
    /\ UNCHANGED <<copyVars, themeVars, listenerVars, smoothVars>>
    /\ UNCHANGED <<edgeVars, lazyVars>>

\* the timers that are due; of those, the one set first runs first
DueTimers == {k \in DOMAIN filterTimers : filterTimers[k].remaining = 0}

\* a sequence without its k-th element
RemoveAt(seq, k) ==
    [j \in 1..(Len(seq) - 1) |-> IF j < k THEN seq[j] ELSE seq[j + 1]]

\* the callback of the k-th pending timer runs
FilterTimerFires(k) ==
    /\ k \in DueTimers
    /\ \A j \in DueTimers : k <= j
    /\ LET tm == filterTimers[k]
       IN /\ cardOpacity' = IF tm.sets = "opacity"
                            THEN [cardOpacity EXCEPT ![tm.card] = "1"]
                            ELSE cardOpacity
          /\ cardDisplay' = IF tm.sets = "display"
                            THEN [cardDisplay EXCEPT ![tm.card] = "none"]
                            ELSE cardDisplay
    /\ filterTimers' = RemoveAt(filterTimers, k)
    /\ lastEvent' = "timer"
    /\ UNCHANGED <<filterListening, lastFilter, filterClicks>>
    /\ UNCHANGED <<formVars, windowVars, scrollVars, navVars>>
    /\ UNCHANGED <<copyVars, themeVars, listenerVars, smoothVars>>
    /\ UNCHANGED <<edgeVars, lazyVars>>

\* initProjectFiltering is called
InitProjectFiltering ==
    /\ ~filterListening
    /\ filterListening' = TRUE
    /\ lastEvent' = "init"
    /\ UNCHANGED <<cardDisplay, cardOpacity, filterTimers, lastFilter,
                   filterClicks>>
    /\ UNCHANGED <<formVars, windowVars, scrollVars, navVars>>
    /\ UNCHANGED <<copyVars, themeVars, listenerVars, smoothVars>>
    /\ UNCHANGED <<edgeVars, lazyVars>>

\* the page after initialize(), which does not call initProjectFiltering
InitFilter ==
    /\ filterListening = FALSE
    /\ cardDisplay = [c \in DOMAIN Category |-> ""]
    /\ cardOpacity = [c \in DOMAIN Category |-> ""]
    /\ filterTimers = <<>>
    /\ lastFilter = ""
    /\ filterClicks = 0

InitWidgets == InitEdge /\ InitLazy /\ InitFilter

InitPage ==
    InitCopy /\ InitTheme /\ InitListeners /\ InitSmooth /\ InitWidgets

(***************************************************************************)
(* The page after load: ScrollManager.init() and initialize() have run.    *)
(***************************************************************************)
InitWindow(h, vp) ==
    /\ scrollY = 0
    /\ docHeight = h
    /\ innerWidth = vp[1]
    /\ innerHeight = vp[2]

InitScrollManager ==
    /\ state = [isScrolling |-> FALSE,
                scrollPosition |-> 0,
                maxScroll |-> docHeight - innerHeight,
                direction |-> "down",
                lastScrollTop |-> 0,
                scrollVelocity |-> 0,
                isAtTop |-> TRUE,
                isAtBottom |-> FALSE,
                scrollPercent |-> [num |-> 0, den |-> 1]]
    /\ touchTimeout = FALSE
    /\ dom = [el \in Elements |->
                [opacity |-> IF el \in RevealEls THEN "0" ELSE "",
                 transform |-> IF el \in RevealEls THEN Px(30) ELSE Unset,
                 transition |-> IF el \in RevealEls
                                THEN "opacity 0.6s ease, transform 0.6s ease"
                                ELSE "",
                 willChange |-> IF el \in ParallaxEls THEN "transform"
                                ELSE "",
                 pointerEvents |-> "",
                 position |-> "",
                 top |-> Unset,
                 width |-> "",
                 zIndex |-> "",
                 classes |-> {}]]
    /\ navActive = {"linkHome"}
    /\ scrollEvents = 0
    /\ prevOffset = 0

InitNav ==
    /\ burgerClasses = {}
    /\ menuClasses = {}
    /\ bodyOverflow = ""
    /\ scrollRequest = NoScrollRequest
    /\ defaultPrevented = FALSE
    /\ burgerClicks = 0
    /\ lastKey = [key |-> "", inTextInput |-> FALSE]

(***************************************************************************)
(* Specifications.                                                         *)
(***************************************************************************)
NextForm ==
    \/ \E v \in FieldInputs : EditField(v)
    \/ SubmitEvent
    \/ \E i \in 1..MaxSubmits, o \in Outcomes : SettleRequest(i, o)

InitFormPage ==
    /\ InitForm
    /\ InitWindow(1500, <<1024, 600>>)
    /\ InitScrollManager
    /\ InitNav
    /\ InitPage
    /\ lastEvent = "load"

SpecForm == InitFormPage /\ [][NextForm]_vars

InitScrollPage ==
    /\ InitForm
    /\ hasSubmitBtn
    /\ \E h \in DocHeights, vp \in Viewports :
          h >= vp[2] /\ InitWindow(h, vp)
    /\ InitScrollManager
    /\ InitNav
    /\ InitPage
    /\ lastEvent = "load"

NextScroll ==
    \/ \E y \in Offsets : ScrollEvent(y)
    \/ \E deltaY \in WheelDeltas : WheelEvent(deltaY)
    \/ TouchMoveEvent
    \/ TouchTimeoutFires
    \/ \E vp \in Viewports : ResizeEvent(vp)
    \/ \E h \in DocHeights : LayoutChange(h)

SpecScroll == InitScrollPage /\ [][NextScroll]_vars

InitNavPage ==
    /\ InitForm
    /\ hasSubmitBtn
    /\ InitWindow(1500, <<500, 400>>)
    /\ InitScrollManager
    /\ InitNav
    /\ InitPage
    /\ lastEvent = "load"

NextNav ==
    \/ BurgerClick
    \/ NavLinkClick
    \/ \E vp \in Viewports : ResizeEvent(vp)
    \/ \E key \in Keys, inTextInput \in BOOLEAN :
          KeydownEvent(key, inTextInput)

SpecNav == InitNavPage /\ [][NextNav]_vars

\* notifications and their timers; the browser runs a timer that is due
NextToast ==
    \/ ShowNotificationCall
    \/ \E d \in TickSteps : TimePasses(d)
    \/ \E k \in 1..MaxToasts : ToastFadeOut(k)
    \/ \E k \in 1..MaxToasts : ToastRemove(k)

FairToast ==
    /\ WF_vars(\E d \in TickSteps : TimePasses(d))
    /\ \A k \in 1..MaxToasts :
          WF_vars(ToastFadeOut(k)) /\ WF_vars(ToastRemove(k))

InitToastPage == InitFormPage /\ hasSubmitBtn

SpecToast == InitToastPage /\ [][NextToast]_vars /\ FairToast

\* the copy button, its timers, and the toast of a failed copy
NextCopy ==
    \/ CopyCall
    \/ \E ok \in BOOLEAN : ClipboardSettles(ok)
    \/ \E k \in 1..MaxCopies : CopyTimerFires(k)
    \/ \E d \in TickSteps : TimePasses(d)
    \/ \E k \in 1..MaxCopies : ToastFadeOut(k)
    \/ \E k \in 1..MaxCopies : ToastRemove(k)

SpecCopy == InitToastPage /\ [][NextCopy]_vars

\* scroll events as every scroll listener of the page sees them, and the
\* throttle timers
ThrottleOffsets == {0, 50, 60, 400}
ThrottleTicks == {30, 100}

NextThrottle ==
    \/ \E y \in ThrottleOffsets : PageScrollEvent(y)
    \/ \E d \in ThrottleTicks : TimePasses(d)
    \/ NavThrottleExpires
    \/ ProgressThrottleExpires

SpecThrottle == InitToastPage /\ [][NextThrottle]_vars

\* smooth scrolling: calls, their animation frames, and scroll events of the
\* user in between
ManualOffsets == {400}

NextSmooth ==
    \/ \E el \in SmoothTargets, offset \in SmoothOffsets :
          SmoothScrollToElement(el, offset)
    \/ \E i \in 1..MaxSmoothScrolls, gap \in FrameGaps :
          AnimationFrame(i, gap)
    \/ \E y \in ManualOffsets : ScrollEvent(y)

SpecSmooth == InitNavPage /\ [][NextSmooth]_vars

\* scrollToTop and scrollToBottom: calls, the frames of the animations they
\* start, and scroll events of the user
EdgeOffsets == {0, 400, 1100}

NextEdge ==
    \/ \E smooth \in BOOLEAN : ScrollToTop(smooth)
    \/ \E smooth \in BOOLEAN : ScrollToBottom(smooth)
    \/ \E i \in 1..MaxSmoothScrolls, gap \in FrameGaps :
          AnimationFrame(i, gap)
    \/ \E y \in EdgeOffsets : UserScroll(y)

SpecEdge == InitNavPage /\ [][NextEdge]_vars

\* lazy loading: the page after initialize() in a browser with or without
\* IntersectionObserver, images entering and leaving the viewport, and the
\* observer's callbacks
InitLazyPage ==
    /\ InitForm
    /\ hasSubmitBtn
    /\ InitWindow(1500, <<1024, 600>>)
    /\ InitScrollManager
    /\ InitNav
    /\ InitCopy
    /\ InitTheme
    /\ InitListeners
    /\ InitSmooth
    /\ InitEdge
    /\ InitFilter
    /\ \E withObserver \in BOOLEAN : InitLazyLoading(withObserver)
    /\ lastEvent = "load"

NextLazy ==
    \/ \E img \in LazyImages : ImageMoves(img)
    \/ \E targets \in SUBSET LazyImages : IntersectionCallback(targets)

SpecLazy == InitLazyPage /\ [][NextLazy]_vars

\* project filtering: clicks on the filter buttons, time, and the timers of
\* handleProjectFilter
FilterTicks == {10, 90, 100}

NextFilter ==
    \/ InitProjectFiltering
    \/ \E f \in Filters : FilterClick(f)
    \/ \E d \in FilterTicks : TimePasses(d)
    \/ \E k \in 1..(MaxFilterClicks * Len(ProjectCards)) :
          FilterTimerFires(k)

SpecFilter == InitToastPage /\ [][NextFilter]_vars

\* dark mode: the page is about to be opened for the first time in this
\* run; the 'theme' key holds whatever earlier sessions left
InitThemePage ==
    /\ InitForm
    /\ hasSubmitBtn
    /\ InitWindow(1500, <<1024, 600>>)
    /\ InitScrollManager
    /\ InitNav
    /\ InitCopy
    /\ InitListeners
    /\ InitSmooth
    /\ InitWidgets
    /\ storedTheme \in StoredThemes
    /\ bodyScheme = ""
    /\ prefersDark \in BOOLEAN
    /\ themeApplied = FALSE
    /\ themeWrites = <<>>
    /\ lastEvent = "closed"

NextTheme ==
    \/ \E matches \in BOOLEAN : PageLoad(matches)
    \/ SystemThemeChange

SpecTheme == InitThemePage /\ [][NextTheme]_vars


(***************************************************************************)
(* Claims about the form.                                                  *)
(***************************************************************************)
Pending(i) == i \in DOMAIN requests /\ requests[i].state = "pending"
Settled(i) == i \in DOMAIN requests /\ requests[i].state = "settled"
ToastsOf(i) == {k \in DOMAIN toasts : toasts[k].src = i}

\* C1: in every state in which at least one submission request of the form
\* is still unsettled, the submit control is disabled.
C1_DisabledWhilePending ==
    (\E i \in DOMAIN requests : Pending(i)) => btnDisabled

\* C2: once every submission request of the form has settled, the submit
\* control is enabled again and shows the label it had before the first
\* submission started.
C2_RestoredWhenAllSettled ==
    (requests # <<>> /\ \A i \in DOMAIN requests : Settled(i))
        => (~btnDisabled /\ btnText = InitialLabel)

\* C3: every settled submission has produced exactly one toast, a success
\* toast when the response was ok and an error toast when the response was
\* not ok or the request failed; a pending request has produced none, and
\* there is no toast that belongs to no request.
C3_OneToastPerSettledRequest ==
    /\ \A i \in DOMAIN requests :
          /\ Pending(i) => ToastsOf(i) = {}
          /\ Settled(i) =>
                /\ Cardinality(ToastsOf(i)) = 1
                /\ \A k \in ToastsOf(i) :
                      toasts[k].type =
                          IF requests[i].outcome = "ok" THEN "success"
                          ELSE "error"
    /\ \A k \in DOMAIN toasts : toasts[k].src \in DOMAIN requests

\* C3's case: an ok, a failed and a pending submission side by side
C3_Witness ==
    /\ \E i \in DOMAIN requests : Settled(i) /\ requests[i].outcome = "ok"
    /\ \E i \in DOMAIN requests :
          Settled(i) /\ requests[i].outcome = "network_error"
    /\ \E i \in DOMAIN requests : Pending(i)

\* C4: the step in which a submission ends with a non-ok status or a network
\* failure leaves the entered field value unchanged; a step in which a
\* submission ends with an ok response resets the field to its default.
C4_FieldsKeptUnlessOk ==
    [][\A i \in DOMAIN requests :
          (Pending(i) /\ requests'[i].state = "settled") =>
              IF requests'[i].outcome = "ok"
              THEN fieldValue' = FieldDefault
              ELSE fieldValue' = fieldValue]_vars

\* C4's case: a failed submission, and the entered value still in the field
C4_Witness ==
    /\ \E i \in DOMAIN requests :
          Settled(i) /\ requests[i].outcome = "http_error"
    /\ \A i \in DOMAIN requests : requests[i].outcome # "ok"
    /\ fieldValue = "hello"

\* C19: every submit event on the form has issued exactly one outbound
\* request, made with the form's own method and action, and no other event
\* has issued one: the requests issued are as many as the submit events.
C19_OneRequestPerSubmit ==
    /\ Len(requests) = submitEvents
    /\ \A i \in DOMAIN requests :
          requests[i].method = FormMethod /\ requests[i].action = FormAction


(***************************************************************************)
(* Claims about notifications and the copy button.                         *)
(***************************************************************************)
\* C11: every toast appended to the document is eventually removed from it,
\* each on its own timers whatever other toasts are showing, and a toast
\* that has been removed was appended at least 4 seconds before.
C11_ToastRemovedAfterFourSeconds ==
    /\ \A k \in 1..MaxToasts :
          (k \in DOMAIN toasts)
              ~> (k \in DOMAIN toasts /\ toasts[k].phase = "removed")
    /\ [](\A k \in DOMAIN toasts :
             toasts[k].phase = "removed" => toasts[k].age >= 4000)

\* C11's case: one toast has been removed while a later one is still showing
C11_Witness ==
    /\ Len(toasts) = 2
    /\ toasts[1].phase = "removed"
    /\ toasts[2].phase = "shown"
    /\ toasts[2].age > 0

\* C17: once no writeText is pending and every 2 s timer has fired, the
\* element shows the label it had before the first call, however close
\* together the successful calls were.
C17_LabelRestoredAfterTimers ==
    (/\ copyTimers # <<>>
     /\ copyWriting = 0
     /\ \A k \in DOMAIN copyTimers : copyTimers[k].fired)
        => copyLabel = CopyLabel

\* the least time between two animation frames
MinFrameGap == CHOOSE g \in FrameGaps : \A h \in FrameGaps : g <= h

\* C16: with frame timestamps that increase by at least the least gap, a
\* call of smoothScrollToElement runs a bounded number of frames (the first
\* one, and then no more than fit into the duration) and requests no frame
\* after the one at which progress reaches 1; when it has stopped, the last
\* position it passed to window.scrollTo is exactly the target
\* (element.offsetTop - offset), whatever scroll events came between its
\* frames.
C16_SmoothScrollEndsOnTarget ==
    /\ [](\A i \in DOMAIN animations :
             /\ (animations[i].frames - 2) * MinFrameGap
                    < smoothScrollDuration
             /\ animations[i].requested
                    <=> animations[i].elapsed < smoothScrollDuration
             /\ ~animations[i].requested =>
                    /\ animations[i].lastSet.den > 0
                    /\ animations[i].lastSet.num =
                           animations[i].targetPosition
                               * animations[i].lastSet.den)
    /\ [][\A i \in DOMAIN animations :
              ~animations[i].requested =>
                  animations'[i] = animations[i]]_vars

\* C16's case: a call from the top to the element at 700 has ended on its
\* target, and the window was at 400, where only the user can have put it,
\* right before the last frame
C16_Witness ==
    /\ Len(animations) = 1
    /\ animations[1].startPosition = 0
    /\ animations[1].targetPosition = 700
    /\ ~animations[1].requested
    /\ lastEvent = "scroll"
    /\ scrollY = 700
    /\ prevOffset = 400

\* C20: once a scroll event has been handled and no throttle timer is
\* pending, the navbar carries its compact styling (padding 8px, the
\* stronger shadow) exactly when the scroll offset is above 50px, and its
\* regular styling otherwise.
C20_NavbarMatchesFinalOffset ==
    (/\ scrollEvents >= 1
     /\ ~navThrottle.inThrottle
     /\ ~progressThrottle.inThrottle)
        => navbarStyle = IF scrollY > 50 THEN NavbarCompact
                         ELSE NavbarRegular

\* the last value written to the 'theme' key, "" when none was
LastThemeWrite(w) == IF w = <<>> THEN "" ELSE w[Len(w)]

\* C18: whenever a theme has been applied since the page was loaded, the
\* stored 'theme' key holds 'dark' or 'light' and equals the body's
\* data-color-scheme attribute; and every step that applies a theme or
\* changes the attribute to a theme writes that same value to the key.
C18_StoredThemeMatchesApplied ==
    /\ [](themeApplied =>
             /\ storedTheme \in {"dark", "light"}
             /\ storedTheme = bodyScheme)
    /\ [][(themeApplied' /\ (~themeApplied \/ bodyScheme' # bodyScheme))
            => /\ Len(themeWrites') = Len(themeWrites) + 1
               /\ LastThemeWrite(themeWrites') = bodyScheme']_vars

\* C18's case: the light theme was applied at startup for the stored value;
\* the system scheme has changed since, the last time to dark
C18_Witness ==
    /\ themeApplied
    /\ lastEvent = "theme"
    /\ Len(themeWrites) >= 2
    /\ themeWrites[1] = "light"
    /\ ~(\E k \in DOMAIN themeWrites : k > 1 /\ themeWrites[k] = "light")
    /\ bodyScheme = "dark"

(***************************************************************************)
(* Claims about ScrollManager.                                             *)
(***************************************************************************)
\* p1 and p2 of the last two scroll events, once two have been handled
TwoScrollEvents == scrollEvents = 2
DirectionMatchesOffsets ==
    /\ prevOffset < scrollY => state.direction = "down"
    /\ prevOffset > scrollY => state.direction = "up"

PercentInRange(p) == p.den > 0 /\ 0 <= p.num /\ p.num <= 100 * p.den

\* C6: after every scroll event, scrollPercent lies within [0,100] whenever
\* the document's current max-scroll is positive and the scroll offset lies
\* in [0, max-scroll], also when the document or viewport height has changed
\* since initialization.
C6_ScrollPercentInRange ==
    (/\ lastEvent = "scroll"
     /\ docHeight - innerHeight > 0
     /\ 0 <= scrollY
     /\ scrollY <= docHeight - innerHeight)
        => PercentInRange(state.scrollPercent)

\* the revealed state of a reveal-marked element
Revealed(d, el) ==
    /\ d[el].opacity = "1"
    /\ d[el].transform.unit # "none"
    /\ TranslationPx(d[el].transform, el) = 0
    /\ "revealed" \in d[el].classes

\* C7: once a reveal-marked element is in the revealed state, no later
\* scroll event (with the five effects it runs) takes it out of that state.
C7_RevealedStaysRevealed ==
    [][\A el \in RevealEls : Revealed(dom, el) => Revealed(dom', el)]_vars

\* the sections whose page extent holds the probe point, 70px below the
\* viewport top
ProbeSections ==
    {id \in DOMAIN SectionTop :
        /\ SectionTop[id] <= scrollY + scrollSpyOffset
        /\ scrollY + scrollSpyOffset < SectionBottom[id]}

\* C8: after a scroll event that leaves the probe point inside exactly one
\* spy section, exactly one scroll-nav link carries 'active': the one whose
\* href names that section.
C8_ExactlyOneActiveLink ==
    (lastEvent = "scroll" /\ Cardinality(ProbeSections) = 1)
        => /\ Cardinality(navActive) = 1
           /\ \A nav \in ScrollNavs :
                 nav \in navActive <=> NavHref[nav] \in ProbeSections

\* C8's case: the probe sits on the top edge of "features", whose link has
\* taken over from the link that was active before
C8_Witness ==
    /\ lastEvent = "scroll"
    /\ ProbeSections = {"features"}
    /\ SectionTop["features"] - scrollY = scrollSpyOffset
    /\ navActive = {"linkFeatures"}

\* the section that comes last in document order among those that hold the
\* probe point
LastProbeSection ==
    SpyTargets[CHOOSE i \in DOMAIN SpyTargets :
                  /\ SpyTargets[i] \in ProbeSections
                  /\ \A j \in DOMAIN SpyTargets :
                        SpyTargets[j] \in ProbeSections => j <= i]

\* C23: after a scroll event that leaves the probe point inside several spy
\* sections at once, the link of the last of them in document order carries
\* 'active' and no other link does, in particular none of the other
\* matching sections' links.
C23_LastMatchingSectionWins ==
    (lastEvent = "scroll" /\ Cardinality(ProbeSections) >= 2)
        => \A nav \in ScrollNavs :
              nav \in navActive <=> NavHref[nav] = LastProbeSection

\* C23's case: the probe sits where "promo" and "projects" overlap, and the
\* link of "projects" is the active one
C23_Witness ==
    /\ lastEvent = "scroll"
    /\ ProbeSections = {"promo", "projects"}
    /\ navActive = {"linkProjects"}

\* C25: a scroll event that leaves the probe point inside no spy section
\* changes no link: the links carrying 'active' are the ones that carried it
\* before the event.
C25_NoSectionNoChange ==
    [][(lastEvent' = "scroll" /\ ProbeSections' = {})
          => navActive' = navActive]_vars

\* C25's case: the window is back above the first section, and the link
\* activated further down is still active
C25_Witness ==
    /\ lastEvent = "scroll"
    /\ ProbeSections = {}
    /\ navActive = {"linkFeatures"}

\* the two states updateHideOnScroll leaves a hide-on-scroll element in
HiddenByScroll(d, el) ==
    /\ d[el].transform = Pct(-100)
    /\ d[el].opacity = "0"
    /\ d[el].pointerEvents = "none"
ShownByScroll(d, el) ==
    /\ TranslationPx(d[el].transform, el) = 0
    /\ d[el].transform.unit # "none"
    /\ d[el].opacity = "1"
    /\ d[el].pointerEvents = "auto"

\* C12: right after every scroll event, each hide-on-scroll element is
\* hidden (translated out of view by its own height, opacity 0, pointer
\* events off) exactly when the tracked direction is 'down' and the scroll
\* offset is above 100px, and shown otherwise.
C12_HiddenIffDownPastThreshold ==
    lastEvent = "scroll" =>
        \A el \in HideEls :
            IF state.direction = "down" /\ scrollY > 100
            THEN HiddenByScroll(dom, el)
            ELSE ShownByScroll(dom, el)

\* C12's case: a scroll up to an offset above the threshold has brought the
\* element back, which an earlier scroll down had hidden
C12_Witness ==
    /\ lastEvent = "scroll"
    /\ scrollY > 100
    /\ prevOffset > scrollY
    /\ state.direction = "up"
    /\ \A el \in HideEls : ShownByScroll(dom, el)

\* the offset a sticky element is configured with, 0 when it has none
ConfiguredOffset(el) ==
    IF el \in DOMAIN DataOffset THEN DataOffset[el] ELSE 0

\* C13: right after every scroll event, each sticky element is fixed at its
\* configured offset and carries 'sticky-active' exactly when the scroll
\* offset is at or past its original top (as laid out at initialization)
\* minus the configured offset; otherwise it is positioned in normal flow
\* (relative, top 0) and does not carry 'sticky-active'.
C13_StickyIffPastOriginalTop ==
    lastEvent = "scroll" =>
        \A el \in StickyEls :
            IF scrollY >= LayoutTop[el] - ConfiguredOffset(el)
            THEN /\ dom[el].position = "fixed"
                 /\ dom[el].top = Px(ConfiguredOffset(el))
                 /\ "sticky-active" \in dom[el].classes
            ELSE /\ dom[el].position = "relative"
                 /\ dom[el].top = Zero
                 /\ "sticky-active" \notin dom[el].classes

\* C13's case: a scroll up has brought the window exactly onto the threshold
\* of the element with a configured offset; the element without one is
\* fixed at the viewport top
C13_Witness ==
    /\ lastEvent = "scroll"
    /\ prevOffset > scrollY
    /\ scrollY = LayoutTop["side"] - DataOffset["side"]
    /\ dom["side"].position = "fixed"
    /\ dom["side"].top = Px(DataOffset["side"])
    /\ dom["bar"].position = "fixed"
    /\ dom["bar"].top = Px(0)

\* C14: right after every scroll event, isAtBottom is true exactly when the
\* scroll offset has reached the maximum scroll offset (document scroll
\* height minus viewport height), and false at every smaller offset.
C14_AtBottomIffMaxOffset ==
    lastEvent = "scroll" =>
        (state.isAtBottom <=> scrollY >= docHeight - innerHeight)

\* the exact fraction p equals currentScroll / maxScroll * 100
PercentEquals(p, currentScroll, maxScroll) ==
    IF maxScroll = 0 \/ p.den = 0
    THEN maxScroll = p.den
    ELSE p.num * maxScroll = currentScroll * 100 * p.den

\* C15: right after a resize event the state record reflects the scroll
\* offset and the document and viewport heights of that moment: the scroll
\* position, both boundary flags and the scroll percentage.
C15_ResizeRecomputesState ==
    lastEvent = "resize" =>
        /\ state.scrollPosition = scrollY
        /\ state.isAtTop <=> scrollY <= 0
        /\ state.isAtBottom <=> scrollY >= docHeight - innerHeight
        /\ PercentEquals(state.scrollPercent, scrollY,
                         docHeight - innerHeight)

(***************************************************************************)
(* Claims about the navigation menu.                                       *)
(***************************************************************************)
\* C9: after n clicks on the hamburger toggle from a closed menu, the toggle
\* and the menu both carry 'open' and body scrolling is disabled when n is
\* odd; neither carries it and scrolling is restored when n is even.
C9_OpenFollowsClickParity ==
    IF burgerClicks % 2 = 1
    THEN /\ "open" \in burgerClasses
         /\ "open" \in menuClasses
         /\ bodyOverflow = "hidden"
    ELSE /\ "open" \notin burgerClasses
         /\ "open" \notin menuClasses
         /\ bodyOverflow = ""

\* C9's case: three clicks, then two more
C9_Witness ==
    /\ burgerClicks = 4
    /\ lastEvent = "click"
    /\ "open" \notin menuClasses
    /\ bodyOverflow = ""

\* the classes a click on the toggle adds
ToggleClasses == {"open", "active"}
CloseTriggerHandled ==
    \/ lastEvent = "navlink"
    \/ lastEvent = "resize" /\ innerWidth >= mobileBreakpoint
    \/ lastEvent = "keydown" /\ lastKey.key = "Escape"
                             /\ ~lastKey.inTextInput

\* C10: after a click on a navigation link, a resize to a width at or above
\* the breakpoint, or an Escape keypress outside a text input, neither the
\* toggle nor the menu carries a class that the toggle click added.
C10_CloseTriggersCloseMenu ==
    CloseTriggerHandled
        => /\ burgerClasses \cap ToggleClasses = {}
           /\ menuClasses \cap ToggleClasses = {}

\* C21: a keydown event whose target is an input or a textarea changes
\* neither the menu's classes nor the scroll position or the scroll asked
\* for, and its default action is not prevented; a keydown outside such a
\* target closes the menu when the key is Escape and asks for a scroll to
\* the hero on Home and to the footer on End.
C21_TextInputKeydownIgnored ==
    /\ [][(lastEvent' = "keydown" /\ lastKey'.inTextInput)
            => /\ burgerClasses' = burgerClasses
               /\ menuClasses' = menuClasses
               /\ bodyOverflow' = bodyOverflow
               /\ scrollY' = scrollY
               /\ scrollRequest' = scrollRequest
               /\ ~defaultPrevented']_vars
    /\ []((lastEvent = "keydown" /\ ~lastKey.inTextInput)
            => /\ lastKey.key = "Escape"
                    => /\ burgerClasses \cap ToggleClasses = {}
                       /\ menuClasses \cap ToggleClasses = {}
               /\ lastKey.key = "Home"
                    => scrollRequest = SmoothScrollTo(SectionTop["home"])
               /\ lastKey.key = "End"
                    => scrollRequest =
                          SmoothScrollTo(docHeight - Height["footer"]))

\* the menu is open: the toggle or the menu carries a class that a click on
\* the toggle adds
MenuOpen ==
    (burgerClasses \cup menuClasses) \cap ToggleClasses # {}

\* C29: in every state reached by clicks on the toggle, clicks on navigation
\* links, Escape keypresses and resizes, body scrolling is disabled exactly
\* when the menu is open.
C29_ScrollLockedIffMenuOpen ==
    bodyOverflow = "hidden" <=> MenuOpen

\* the navigation entries highlighted by updateActiveNavLink: a link that
\* carries 'active', or a link whose parent item carries it
Highlighted == navLinkActive \cup navItemActive

\* C26: after any sequence of scroll events through the sections, at most one
\* navigation entry is highlighted by updateActiveNavLink.
C26_AtMostOneHighlighted ==
    Cardinality(Highlighted) <= 1

\* C27 for one throttled function: its first call invokes it at once; a call
\* of the wrapper less than limit ms after the last invocation invokes
\* nothing, then or later (invocations happen only within a call of the
\* wrapper); and an invocation comes at least limit ms after the one before
\* it, so that no window of limit ms holds two.
ThrottleHolds(log, logAfter, eventAfter, limit) ==
    /\ (eventAfter = "scroll" /\ ~log.invoked) => logAfter.now
    /\ (eventAfter = "scroll" /\ log.invoked /\ log.since < limit)
          => (~logAfter.now /\ logAfter.since = log.since)
    /\ eventAfter # "scroll" => ~(logAfter.since < log.since)
    /\ (eventAfter = "scroll" /\ logAfter.now /\ log.invoked)
          => log.since >= limit

\* C27: both throttled listeners of the page (limits 100 ms and 50 ms)
\* behave as throttle promises: the first call invokes func immediately,
\* calls made less than limit ms after the last invocation are dropped for
\* good, and func is invoked at most once in any window of limit ms.
C27_ThrottleLeadingEdgeOnly ==
    [][/\ ThrottleHolds(throttleLog.nav, throttleLog.nav', lastEvent',
                        scrollThrottle)
       /\ ThrottleHolds(throttleLog.progress, throttleLog.progress',
                        lastEvent', progressThrottleLimit)]_vars

\* C27's case: a scroll event 60 ms after the navbar listener ran was
\* dropped by the 100 ms throttle and let through by the 50 ms one
C27_Witness ==
    /\ lastEvent = "scroll"
    /\ throttleLog.nav = [invoked |-> TRUE, since |-> 60, now |-> FALSE]
    /\ throttleLog.progress.now
    /\ navThrottle.inThrottle

\* C24: once a call of scrollToBottom, made while no other animation was
\* running, has made its last window.scrollTo, and until the user scrolls
\* again, the window is at the maximum scroll offset,
\* whether the call was smooth or not; likewise the window is at offset 0
\* after scrollToTop.
C24_EdgeCallsReachTheEdge ==
    (EdgeCallFinished /\ edgeCall.alone /\ ~edgeCall.disturbed)
        => scrollY = IF edgeCall.kind = "bottom"
                     THEN docHeight - innerHeight
                     ELSE 0

\* what C22 says of one image, entries being intersection events: its src is
\* the deferred source exactly when an entry reporting it inside the
\* viewport has been delivered, it is observed exactly until then, and the
\* loader has assigned its src once from then on and never before
LoadedByFirstEntry(img) ==
    /\ imgSrc[img] = (IF img \in reportedInside THEN DataSrc[img] ELSE "")
    /\ img \in observed <=> img \notin reportedInside
    /\ srcWrites[img] = (IF img \in reportedInside THEN 1 ELSE 0)

CardShown(c) == cardDisplay[c] = "block" /\ cardOpacity[c] = "1"
CardHidden(c) == cardDisplay[c] = "none"

\* C28: after any sequence of clicks on the filter buttons, however close in
\* time, once no timer is pending each project card is shown (display block,
\* opacity 1) when the filter clicked last is 'all' or the card's category,
\* and hidden (display none) otherwise.
C28_CardsMatchLastFilter ==
    (filterClicks >= 1 /\ filterTimers = <<>>)
        => \A c \in DOMAIN Category :
              IF lastFilter = "all" \/ Category[c] = lastFilter
              THEN CardShown(c)
              ELSE CardHidden(c)

====
